---- MODULE Spec2Model ----
(***************************************************************************)
(* A model of arrayh5.c (h5utils): the in-memory N-dimensional array, the  *)
(* recursive transpose, and the reader and writer of HDF5 datasets.        *)
(* C arrays are 0-based; the sequences below are 1-based, so an access     *)
(* p[i] of the source reads p[i + 1] here.                                 *)
(***************************************************************************)
EXTENDS Integers, Sequences, FiniteSets, TLC

\* ------------------------------------------------------------------ bounds
\* largest rank of an array built in memory or stored in the container
MaxRank == 3
\* largest extent of one axis
MaxDim == 2
\* largest extent of one axis of the arrays that are transposed
MaxDimT == 3
\* largest rank of the arrays handed to arrayh5_write
MaxRankW == 2

\* ------------------------------------------------------------- the array
\* the content of a cell of malloc'ed storage that was never written
Uninit == 0

RECURSIVE ProdRange(_, _, _)
\* for (i = lo; i < hi; ++i) prod *= dims[i];   with prod = 1 before
ProdRange(dims, lo, hi) ==
    IF lo >= hi THEN 1 ELSE dims[lo + 1] * ProdRange(dims, lo + 1, hi)

\* malloc(sizeof(double) * n): n cells holding nothing yet
MallocData(n) ==
    [j \in 1..n |-> Uninit]

\* arrayh5_create_withdata, past its CHECK(rank >= 0): dims are copied, N is
\* their product, data is the buffer given or a fresh one of N cells
arrayh5_create_withdata(rank, dims, data) ==
    LET N == ProdRange(dims, 0, rank)
    IN  [rank |-> rank,
         dims |-> [i \in 1..rank |-> dims[i]],
         N    |-> N,
         data |-> IF data # <<>> THEN data ELSE MallocData(N)]

arrayh5_create(rank, dims) ==
    arrayh5_create_withdata(rank, dims, <<>>)

arrayh5_conformant(x, y) ==
    /\ x.rank = y.rank
    /\ \A i \in 1..x.rank : x.dims[i] = y.dims[i]

\* ------------------------------------------------------------- transpose
\* a slip: the destination stride taken from the axes after curdim
prod_before_after(dims, curdim, rank) ==
    ProdRange(dims, curdim + 1, rank)

\* prod_before of rtranspose: the product of dims[0 .. curdim-1]
prod_before(dims, curdim, rank) ==
    ProdRange(dims, 0, curdim)

\* prod_after of rtranspose: the product of dims[curdim+1 .. rank-1]
prod_after(dims, curdim, rank) ==
    ProdRange(dims, curdim + 1, rank)

RECURSIVE rtranspose_for(_, _, _, _, _, _, _, _)
\* the two for loops over i of rtranspose, from iteration i on; data_t is the
\* destination buffer as written so far
rtranspose_for(i, curdim, rank, dims, curindex, curindex_t, data, data_t) ==
    IF ~(i < dims[curdim + 1]) THEN data_t
    ELSE IF curdim = rank - 1
    THEN rtranspose_for(i + 1, curdim, rank, dims, curindex, curindex_t, data,
             [data_t EXCEPT ![curindex_t + i * prod_before(dims, curdim, rank) + 1] =
                                data[curindex + i + 1]])
    ELSE rtranspose_for(i + 1, curdim, rank, dims, curindex, curindex_t, data,
             rtranspose_for(0, curdim + 1, rank, dims,
                 curindex + i * prod_after(dims, curdim, rank),
                 curindex_t + i * prod_before(dims, curdim, rank),
                 data, data_t))

rtranspose(curdim, rank, dims, curindex, curindex_t, data, data_t) ==
    IF rank = 0
    THEN [data_t EXCEPT ![1] = data[1]]
    ELSE rtranspose_for(0, curdim, rank, dims, curindex, curindex_t, data, data_t)

RECURSIVE swap_dims(_, _, _)
\* for (i = 0; i < rank - 1 - i; ++i) swap dims[i] and dims[rank - 1 - i]
swap_dims(i, rank, dims) ==
    IF ~(i < rank - 1 - i) THEN dims
    ELSE swap_dims(i + 1, rank,
             [dims EXCEPT ![i + 1] = dims[rank - 1 - i + 1],
                          ![rank - 1 - i + 1] = dims[i + 1]])

arrayh5_transpose(x) ==
    [x EXCEPT !.data = rtranspose(0, x.rank, x.dims, 0, 0, x.data, MallocData(x.N)),
              !.dims = swap_dims(0, x.rank, x.dims)]

\* ------------------------------------------- what the claims speak about
Reverse(s) ==
    [i \in 1..Len(s) |-> s[Len(s) + 1 - i]]

\* the valid multi-indices (0-based entries) of an array of extents dims
MultiIdx(dims) ==
    {f \in [1..Len(dims) -> 0..(MaxDim + MaxDimT)] :
        \A k \in 1..Len(dims) : f[k] < dims[k]}

RECURSIVE RowMajor(_, _)
\* the flat offset of multi-index idx in row-major order
RowMajor(idx, dims) ==
    IF Len(dims) = 0 THEN 0
    ELSE idx[1] * ProdRange(dims, 1, Len(dims)) + RowMajor(Tail(idx), Tail(dims))

\* the element of x at multi-index idx
ElemAt(x, idx) ==
    x.data[RowMajor(idx, x.dims) + 1]

\* ------------------------------------------------------------------ state
VARIABLES
    arr,     \* the array the caller holds
    orig,    \* the array as it was before the last operation on it
    op,      \* the last operation on arr
    fexists, \* whether the container file exists
    entries, \* the top-level entries of the container, by name
    pc,      \* where the program is: "idle", in arrayh5_write, in arrayh5_read
    w,       \* the arguments and locals of the arrayh5_write in progress
    rd,      \* the arguments and locals of the arrayh5_read in progress
    a,       \* the output array *a of arrayh5_read
    res,     \* each handle and heap block of the call: none, held, released, double
    exited,  \* "" while the process runs, else the message of the CHECK that ended it
    wlog,    \* the container calls of the last arrayh5_write from H5Dcreate on
    pre,     \* the container as it was when the arrayh5_write in progress was called
    lastW,   \* by name, the array most recently written under it
    valid    \* by name, whether it was written since the container was last truncated

tvars == <<arr, orig, op>>
iovars == <<fexists, entries, pc, w, rd, a, res, exited, wlog, pre, lastW, valid>>
vars == <<arr, orig, op, fexists, entries, pc, w, rd, a, res, exited, wlog, pre,
          lastW, valid>>

\* the extents of every shape of rank 0..maxrank with extents 1..maxdim
Shapes(maxrank, maxdim) ==
    UNION {[1..r -> 1..maxdim] : r \in 0..maxrank}

\* the first elements an array may hold: cell j holds base + j
Bases == {0, 10}

Labelled(dims, base) ==
    arrayh5_create_withdata(Len(dims), dims,
        [j \in 1..ProdRange(dims, 0, Len(dims)) |-> base + j])

\* ---------------------------------------------------------- the container
\* the names a top-level entry of the container may have
Names == {"x", "y"}

\* the order in which H5Giterate visits the top-level entries
NameOrder == <<"x", "y">>

NoEntry == [kind |-> "none", dims |-> <<>>, data |-> <<>>]

GroupEntry == [kind |-> "group", dims |-> <<>>, data |-> <<>>]

Dataset(dims, data) == [kind |-> "dataset", dims |-> dims, data |-> data]

EmptyFile == [n \in Names |-> NoEntry]

\* the handles and heap blocks a call of arrayh5_read or arrayh5_write acquires
Handles == {"file", "dataset", "space", "memspace"}

TempBlocks == {"dname", "dims", "dims_copy", "maxdims", "start", "count", "count2"}

ArrayBlocks == {"a.dims", "a.data"}

Resources == Handles \cup TempBlocks \cup ArrayBlocks

NoRes == [r \in Resources |-> "none"]

\* H5Fopen, H5Dopen, H5Screate_simple, malloc, ... : r is now held
Acquire(rs, r) ==
    [rs EXCEPT ![r] = "held"]

\* H5Fclose, H5Dclose, H5Sclose, free of a non-null pointer: releasing what is
\* not held (any more) is a double release
Release(rs, r) ==
    [rs EXCEPT ![r] = IF rs[r] = "held" THEN "released" ELSE "double"]

\* free(p): a no-op on a null pointer
Free(rs, p) ==
    IF p = "NULL" THEN rs ELSE Release(rs, p)

\* arrayh5_destroy: free(a.dims); free(a.data);
arrayh5_destroy(x, rs) ==
    Free(Free(rs, x.dimsp), x.datap)

NoArray == [rank |-> 0, dims |-> <<>>, N |-> 0, data |-> <<>>]

\* the locals of arrayh5_read before the call
RdIdle ==
    [datapath |-> "", slicedim |-> 0, islice |-> 0, fault |-> "none",
     file_id |-> -1, data_id |-> -1, space_id |-> -1, dname |-> "NULL",
     err |-> 0, ndims |-> 0, rank |-> 0, dims |-> <<>>,
     start |-> <<>>, count |-> <<>>, count2 |-> <<>>, trace |-> {}]

\* the caller's array before arrayh5_read has set it
AUnset ==
    [rank |-> Uninit, dims |-> <<>>, N |-> Uninit, data |-> <<>>,
     dimsp |-> "NULL", datap |-> "NULL"]

\* ------------------------------------------------------------ arrayh5_write
WIdle == [a |-> NoArray, dataname |-> "", append |-> FALSE, data_id |-> -1]

NoPre == [fexists |-> FALSE, entries |-> EmptyFile, set |-> FALSE]

\* the order of the statements of arrayh5_write with the dataset handle released
\* before the dataspace handle
WriteOrderSpaceLast ==
    <<"w_open", "w_unlink", "w_check", "w_space", "w_dcreate", "w_dwrite",
      "w_dclose", "w_sclose", "w_fclose", "idle">>

\* the order of the statements of arrayh5_write
WriteOrder ==
    <<"w_open", "w_unlink", "w_check", "w_space", "w_dcreate", "w_sclose",
      "w_dwrite", "w_dclose", "w_fclose", "idle">>

\* the statement that follows statement p
WAfter(p) ==
    WriteOrder[1 + CHOOSE i \in 1..(Len(WriteOrder) - 1) : WriteOrder[i] = p]

\* a slip: the probe never finds the dataset, so nothing is unlinked
dataset_exists_never(ents, name) ==
    FALSE

\* dataset_exists: H5Dopen succeeds exactly on a dataset; the handle is closed again
dataset_exists(ents, name) ==
    ents[name].kind = "dataset"

\* file_id = append_data ? H5Fopen(RDWR) : H5Fcreate(TRUNC); CHECK(file_id >= 0)
WOpen(arrays) ==
    /\ pc = "idle" /\ exited = ""
    /\ \E x \in arrays, n \in Names, app \in BOOLEAN :
        /\ w' = [a |-> x, dataname |-> n, append |-> app, data_id |-> -1]
        /\ pre' = [fexists |-> fexists, entries |-> entries, set |-> TRUE]
        /\ wlog' = <<>>
        /\ IF app
           THEN /\ UNCHANGED <<fexists, entries, valid>>
                /\ IF fexists
                   THEN /\ res' = Acquire(NoRes, "file")
                        /\ pc' = WAfter("w_open")
                        /\ exited' = ""
                   ELSE /\ res' = NoRes
                        /\ pc' = "exit"
                        /\ exited' = "error opening HDF5 output file"
           ELSE /\ fexists' = TRUE
                /\ entries' = EmptyFile
                /\ valid' = [m \in Names |-> FALSE]
                /\ res' = Acquire(NoRes, "file")
                /\ pc' = WAfter("w_open")
                /\ exited' = ""
    /\ UNCHANGED <<rd, a, lastW, tvars>>

\* if (dataset_exists(file_id, dataname)) H5Gunlink(file_id, dataname);
WUnlink ==
    /\ pc = "w_unlink"
    /\ entries' = IF dataset_exists(entries, w.dataname)
                  THEN [entries EXCEPT ![w.dataname] = NoEntry]
                  ELSE entries
    /\ pc' = WAfter("w_unlink")
    /\ UNCHANGED <<fexists, w, rd, a, res, exited, wlog, pre, lastW, valid, tvars>>

\* CHECK(a.rank > 0, "non-positive rank")
WCheck ==
    /\ pc = "w_check"
    /\ IF w.a.rank > 0
       THEN pc' = WAfter("w_check") /\ exited' = ""
       ELSE pc' = "exit" /\ exited' = "write: non-positive rank"
    /\ UNCHANGED <<fexists, entries, w, rd, a, res, wlog, pre, lastW, valid, tvars>>

\* dims_copy = malloc; copy; space_id = H5Screate_simple(...); free(dims_copy)
WSpace ==
    /\ pc = "w_space"
    /\ res' = Acquire(Release(Acquire(res, "dims_copy"), "dims_copy"), "space")
    /\ pc' = WAfter("w_space")
    /\ UNCHANGED <<fexists, entries, w, rd, a, exited, wlog, pre, lastW, valid, tvars>>

\* data_id = H5Dcreate(file_id, dataname, H5T_NATIVE_DOUBLE, space_id, ...): fails
\* when the name is taken; a new dataset holds the fill value
WDcreate ==
    /\ pc = "w_dcreate"
    /\ IF entries[w.dataname].kind = "none" /\ res["space"] = "held"
       THEN /\ entries' = [entries EXCEPT ![w.dataname] =
                               Dataset(w.a.dims, MallocData(w.a.N))]
            /\ w' = [w EXCEPT !.data_id = 1]
            /\ res' = Acquire(res, "dataset")
       ELSE UNCHANGED <<entries, w, res>>
    /\ wlog' = Append(wlog, "H5Dcreate")
    /\ pc' = WAfter("w_dcreate")
    /\ UNCHANGED <<fexists, rd, a, exited, pre, lastW, valid, tvars>>

\* H5Sclose(space_id)
WSclose ==
    /\ pc = "w_sclose"
    /\ res' = Release(res, "space")
    /\ wlog' = Append(wlog, "H5Sclose")
    /\ pc' = WAfter("w_sclose")
    /\ UNCHANGED <<fexists, entries, w, rd, a, exited, pre, lastW, valid, tvars>>

\* H5Dwrite(data_id, type_id, H5S_ALL, H5S_ALL, H5P_DEFAULT, a.data)
WDwrite ==
    /\ pc = "w_dwrite"
    /\ entries' = IF w.data_id >= 0 /\ res["dataset"] = "held"
                  THEN [entries EXCEPT ![w.dataname].data = w.a.data]
                  ELSE entries
    /\ lastW' = [lastW EXCEPT ![w.dataname] = w.a]
    /\ valid' = [valid EXCEPT ![w.dataname] = TRUE]
    /\ wlog' = Append(wlog, "H5Dwrite")
    /\ pc' = WAfter("w_dwrite")
    /\ UNCHANGED <<fexists, w, rd, a, res, exited, pre, tvars>>

\* H5Dclose(data_id)
WDclose ==
    /\ pc = "w_dclose"
    /\ res' = IF w.data_id >= 0 THEN Release(res, "dataset") ELSE res
    /\ wlog' = Append(wlog, "H5Dclose")
    /\ pc' = WAfter("w_dclose")
    /\ UNCHANGED <<fexists, entries, w, rd, a, exited, pre, lastW, valid, tvars>>

\* H5Fclose(file_id); the call returns
WFclose ==
    /\ pc = "w_fclose"
    /\ res' = Release(res, "file")
    /\ wlog' = Append(wlog, "H5Fclose")
    /\ pc' = WAfter("w_fclose")
    /\ w' = WIdle
    /\ pre' = NoPre
    /\ UNCHANGED <<fexists, entries, rd, a, exited, lastW, valid, tvars>>

\* ------------------------------------------------------------- arrayh5_read
\* hsize_t and size_t are unsigned HSizeBits-bit integers (64 in the build; the
\* model keeps the wrap-around at a width its integers can hold)
HSizeBits == 16

HSizeMod == 2 ^ HSizeBits

\* the conversion of an int to hsize_t
ToHsize(n) ==
    n % HSizeMod

\* malloc(size * n) for n > 0: the product wraps as size_t; a request above
\* PTRDIFF_MAX fails
MallocFails(size, n) ==
    (size * n) % HSizeMod > (HSizeMod \div 2) - 1

\* H5Sget_simple_extent_ndims: the rank of the dataspace, negative on a bad handle
H5Sget_simple_extent_ndims(space_id, ds) ==
    IF space_id < 0 THEN -1 ELSE Len(ds.dims)

\* if (rank <= 0)   on the hsize_t rank
RankInvalid(rank) ==
    rank <= 0

\* if (slicedim < 0 || (slicedim >= rank && islice == 0))
FullMode(slicedim, rank, islice) ==
    slicedim < 0 \/ (ToHsize(slicedim) >= rank /\ islice = 0)

\* a slip: the lower bound of islice is not tested
SliceModeNoLower(slicedim, rank, islice, dims) ==
    ToHsize(slicedim) < rank /\ islice < dims[slicedim + 1]

\* else if (slicedim < rank && islice >= 0 && islice < dims[slicedim])
SliceMode(slicedim, rank, islice, dims) ==
    ToHsize(slicedim) < rank /\ islice >= 0 /\ islice < dims[slicedim + 1]

\* a slip: the selection always starts at index 0 of the sliced axis
SliceStartZero(rank, slicedim, islice) ==
    [i \in 1..rank |-> 0]

\* start[i] = 0 for every i; start[slicedim] = islice;
SliceStart(rank, slicedim, islice) ==
    [[i \in 1..rank |-> 0] EXCEPT ![slicedim + 1] = islice]

\* count[i] = dims[i] for every i; count[slicedim] = 1;
SliceCount(rank, slicedim, dims) ==
    [[i \in 1..rank |-> dims[i]] EXCEPT ![slicedim + 1] = 1]

RECURSIVE ShiftDims(_, _, _)
\* for (i = slicedim; i + 1 < rank; ++i) count2[i] = dims[i] = dims[i + 1];
ShiftDims(i, rank, dims) ==
    IF ~(i + 1 < rank) THEN dims
    ELSE ShiftDims(i + 1, rank, [dims EXCEPT ![i + 1] = dims[i + 2]])

\* a slip: the rank of the array made for the slice follows the memory dataspace
SliceArrayRankAsSpace(rank) ==
    IF rank - 1 = 0 THEN 1 ELSE rank - 1

\* the rank handed to arrayh5_create for the slice: arrayh5_create(0, dims) when
\* rank - 1 is 0, else arrayh5_create(rank - 1, dims)
SliceArrayRank(rank) ==
    IF rank - 1 = 0 THEN 0 ELSE rank - 1

\* the rank of the memory dataspace: rank = rank - 1; if (rank == 0) rank = 1;
SliceSpaceRank(rank) ==
    IF ToHsize(rank - 1) = 0 THEN 1 ELSE ToHsize(rank - 1)

RECURSIVE SelOffsets(_, _, _)
\* the flat offsets, in row-major order, of the elements of the hyperslab
\* (start, count) of a dataspace of extents dims
SelOffsets(dims, start, count) ==
    IF Len(dims) = 0 THEN <<0>>
    ELSE LET sub == SelOffsets(Tail(dims), Tail(start), Tail(count))
             stride == ProdRange(dims, 1, Len(dims))
         IN  [n \in 1..(count[1] * Len(sub)) |->
                 (start[1] + ((n - 1) \div Len(sub))) * stride
                     + sub[((n - 1) % Len(sub)) + 1]]

\* H5Dread with a memory and a file selection: the selected elements of the
\* dataset, in row-major order, land in the selected cells of buf, in row-major
\* order; a selection outside its dataspace, or selections of different sizes, fail
H5Dread(buf, mdims, mstart, mcount, fdims, fstart, fcount, fdata) ==
    LET m == SelOffsets(mdims, mstart, mcount)
        f == SelOffsets(fdims, fstart, fcount)
        fits == /\ Len(m) = Len(f)
                /\ \A k \in 1..Len(mdims) : mstart[k] + mcount[k] <= mdims[k]
                /\ \A k \in 1..Len(fdims) :
                       fstart[k] >= 0 /\ fstart[k] + fcount[k] <= fdims[k]
                /\ \A j \in 1..Len(m) : m[j] + 1 <= Len(buf)
    IN  IF fits
        THEN [ok  |-> TRUE,
              buf |-> [p \in 1..Len(buf) |->
                          IF \E j \in 1..Len(m) : m[j] + 1 = p
                          THEN fdata[f[CHOOSE j \in 1..Len(m) : m[j] + 1 = p] + 1]
                          ELSE buf[p]]]
        ELSE [ok |-> FALSE, buf |-> buf]

\* a slip: the array is destroyed only when the full read failed
DestroyOnErrFullOnly(err) ==
    err = 3

\* if (err >= 3 && err <= 4) arrayh5_destroy(*a);
DestroyOnErr(err) ==
    err >= 3 /\ err <= 4

\* *a = arrayh5_create(rank, dims): a.dims and a.data are fresh blocks
ACreate(rank, dims) ==
    LET c == arrayh5_create(rank, dims)
    IN  [rank |-> c.rank, dims |-> c.dims, N |-> c.N, data |-> c.data,
         dimsp |-> "a.dims", datap |-> "a.data"]

\* the dataset arrayh5_read resolved
RdDataset == entries[rd.dname]

\* a->dims = NULL; a->data = NULL; file_id = H5Fopen(fname, H5F_ACC_RDONLY, ...)
ROpen(paths, slicedims, islices, faults) ==
    /\ pc = "idle" /\ exited = ""
    /\ \E dp \in paths, sd \in slicedims, k \in islices, ft \in faults :
        /\ a' = AUnset
        /\ IF fexists
           THEN /\ rd' = [RdIdle EXCEPT !.datapath = dp, !.slicedim = sd,
                              !.islice = k, !.fault = ft, !.file_id = 1]
                /\ res' = Acquire(NoRes, "file")
                /\ pc' = "r_resolve"
           ELSE /\ rd' = [RdIdle EXCEPT !.datapath = dp, !.slicedim = sd,
                              !.islice = k, !.fault = ft, !.err = 1]
                /\ res' = NoRes
                /\ pc' = "r_done"
    /\ UNCHANGED <<fexists, entries, w, exited, wlog, pre, lastW, valid, tvars>>

\* find_dataset under H5Giterate: the first top-level entry that is a dataset
FirstDataset(ents) ==
    LET hits == {i \in 1..Len(NameOrder) : ents[NameOrder[i]].kind = "dataset"}
    IN  IF hits = {} THEN "NULL"
        ELSE NameOrder[CHOOSE i \in hits : \A j \in hits : i <= j]

\* dname = copy of datapath, or the dataset H5Giterate finds; err = 2 if none
RResolve ==
    /\ pc = "r_resolve"
    /\ LET dn == IF rd.datapath # "" THEN rd.datapath ELSE FirstDataset(entries)
       IN  IF dn # "NULL"
           THEN /\ rd' = [rd EXCEPT !.dname = dn]
                /\ res' = Acquire(res, "dname")
                /\ pc' = "r_dopen"
           ELSE /\ rd' = [rd EXCEPT !.err = 2]
                /\ res' = res
                /\ pc' = "r_done"
    /\ UNCHANGED <<fexists, entries, w, a, exited, wlog, pre, lastW, valid, tvars>>

\* data_id = H5Dopen(file_id, dname); err = 7 when it fails
RDopen ==
    /\ pc = "r_dopen"
    /\ IF RdDataset.kind = "dataset"
       THEN /\ rd' = [rd EXCEPT !.data_id = 1]
            /\ res' = Acquire(res, "dataset")
            /\ pc' = "r_space"
       ELSE /\ rd' = [rd EXCEPT !.err = 7]
            /\ res' = res
            /\ pc' = "r_done"
    /\ UNCHANGED <<fexists, entries, w, a, exited, wlog, pre, lastW, valid, tvars>>

\* space_id = H5Dget_space(data_id); rank = H5Sget_simple_extent_ndims(space_id);
\* if (rank <= 0) err = 6
RSpace ==
    /\ pc = "r_space"
    /\ LET sid == IF rd.fault = "getspace" THEN -1 ELSE 1
           nd == H5Sget_simple_extent_ndims(sid, RdDataset)
           rank == ToHsize(nd)
       IN  /\ res' = IF sid >= 0 THEN Acquire(res, "space") ELSE res
           /\ IF RankInvalid(rank)
              THEN /\ rd' = [rd EXCEPT !.space_id = sid, !.ndims = nd,
                                 !.rank = rank, !.err = 6,
                                 !.trace = @ \cup {"rankquery"}]
                   /\ pc' = "r_done"
              ELSE /\ rd' = [rd EXCEPT !.space_id = sid, !.ndims = nd,
                                 !.rank = rank, !.trace = @ \cup {"rankquery"}]
                   /\ pc' = "r_alloc"
    /\ UNCHANGED <<fexists, entries, w, a, exited, wlog, pre, lastW, valid, tvars>>

\* CHK_MALLOC of dims, dims_copy, maxdims; H5Sget_simple_extent_dims; the copy
\* into dims; free(maxdims); free(dims_copy)
RAlloc ==
    /\ pc = "r_alloc"
    /\ IF MallocFails(4, rd.rank) \/ MallocFails(8, rd.rank)
       THEN /\ rd' = [rd EXCEPT !.trace = @ \cup {"alloc"}]
            /\ res' = res
            /\ pc' = "exit"
            /\ exited' = "out of memory"
       ELSE /\ rd' = [rd EXCEPT !.dims = [i \in 1..rd.rank |-> RdDataset.dims[i]],
                          !.trace = @ \cup {"alloc"}]
            /\ res' = [Acquire(res, "dims") EXCEPT !["dims_copy"] = "released",
                                                   !["maxdims"] = "released"]
            /\ pc' = "r_select"
            /\ exited' = ""
    /\ UNCHANGED <<fexists, entries, w, a, wlog, pre, lastW, valid, tvars>>

\* the full read: *a = arrayh5_create(rank, dims); free(dims);
RFullCreate ==
    /\ pc = "r_select"
    /\ FullMode(rd.slicedim, rd.rank, rd.islice)
    /\ a' = ACreate(rd.rank, rd.dims)
    /\ res' = Release(Acquire(Acquire(res, "a.dims"), "a.data"), "dims")
    /\ pc' = "r_fullread"
    /\ UNCHANGED <<fexists, entries, w, rd, exited, wlog, pre, lastW, valid, tvars>>

\* if (H5Dread(data_id, ..., H5S_ALL, H5S_ALL, ..., a->data) < 0) err = 3
RFullRead ==
    /\ pc = "r_fullread"
    /\ IF rd.fault = "dread"
       THEN /\ rd' = [rd EXCEPT !.err = 3, !.trace = @ \cup {"read"}]
            /\ a' = a
       ELSE /\ rd' = [rd EXCEPT !.trace = @ \cup {"read"}]
            /\ a' = [a EXCEPT !.data = RdDataset.data]
    /\ pc' = "r_done"
    /\ UNCHANGED <<fexists, entries, w, res, exited, wlog, pre, lastW, valid, tvars>>

\* the slice read up to the memory dataspace: start, count, count2, the file
\* selection, the shift of dims, *a = arrayh5_create(...), free(dims),
\* mem_space_id = H5Screate_simple(rank, count2, NULL) and its selection.
\* malloc(0), asked for the dims of a rank-0 array, may return a null pointer
RSliceSetup ==
    /\ pc = "r_select"
    /\ ~FullMode(rd.slicedim, rd.rank, rd.islice)
    /\ SliceMode(rd.slicedim, rd.rank, rd.islice, rd.dims)
    /\ LET start == SliceStart(rd.rank, rd.slicedim, rd.islice)
           count == SliceCount(rd.rank, rd.slicedim, rd.dims)
           arank == SliceArrayRank(rd.rank)
           srank == SliceSpaceRank(rd.rank)
           sdims == ShiftDims(rd.slicedim, rd.rank, rd.dims)
           dims2 == IF ToHsize(rd.rank - 1) = 0 THEN [sdims EXCEPT ![1] = 1] ELSE sdims
       IN  \E malloc0 \in {"block", "null"} :
             IF arank = 0 /\ malloc0 = "null"
             THEN /\ pc' = "exit"
                  /\ exited' = "out of memory"
                  /\ rd' = [rd EXCEPT !.start = start, !.count = count,
                                !.count2 = dims2, !.dims = dims2]
                  /\ res' = Acquire(Acquire(Acquire(res, "start"), "count"), "count2")
                  /\ a' = a
             ELSE /\ pc' = "r_sliceread"
                  /\ exited' = ""
                  /\ rd' = [rd EXCEPT !.start = start, !.count = count,
                                !.count2 = dims2, !.dims = dims2, !.rank = srank]
                  /\ a' = ACreate(arank, dims2)
                  /\ res' = Release(
                              Acquire(Acquire(Acquire(Acquire(Acquire(Acquire(res,
                                  "start"), "count"), "count2"), "a.dims"), "a.data"),
                                  "memspace"),
                              "dims")
    /\ UNCHANGED <<fexists, entries, w, wlog, pre, lastW, valid, tvars>>

\* readerr = H5Dread(data_id, ..., mem_space_id, space_id, ..., a->data);
\* H5Sclose(mem_space_id); free(count2); free(count); free(start);
\* if (readerr < 0) err = 4
RSliceRead ==
    /\ pc = "r_sliceread"
    /\ LET mdims == SubSeq(rd.count2, 1, rd.rank)
           mstart == [i \in 1..rd.rank |-> 0]
           got == H5Dread(a.data, mdims, mstart, mdims,
                          RdDataset.dims, rd.start, rd.count, RdDataset.data)
           readerr == IF rd.fault = "dread" \/ ~got.ok THEN -1 ELSE 0
       IN  /\ a' = IF readerr < 0 THEN a ELSE [a EXCEPT !.data = got.buf]
           /\ rd' = [rd EXCEPT !.err = IF readerr < 0 THEN 4 ELSE 0,
                         !.trace = @ \cup {"read"}]
    /\ res' = Release(Release(Release(Release(res, "memspace"), "count2"), "count"),
                      "start")
    /\ pc' = "r_done"
    /\ UNCHANGED <<fexists, entries, w, exited, wlog, pre, lastW, valid, tvars>>

\* else { free(dims); err = 5; }
RInvalid ==
    /\ pc = "r_select"
    /\ ~FullMode(rd.slicedim, rd.rank, rd.islice)
    /\ ~SliceMode(rd.slicedim, rd.rank, rd.islice, rd.dims)
    /\ rd' = [rd EXCEPT !.err = 5]
    /\ res' = Release(res, "dims")
    /\ pc' = "r_done"
    /\ UNCHANGED <<fexists, entries, w, a, exited, wlog, pre, lastW, valid, tvars>>

\* done: the array is destroyed on a failed transfer; the dataspace, the
\* dataset, dname and the file are released; the call returns err
RDone ==
    /\ pc = "r_done"
    /\ LET r1 == IF DestroyOnErr(rd.err) THEN arrayh5_destroy(a, res) ELSE res
           r2 == IF rd.space_id >= 0 THEN Release(r1, "space") ELSE r1
           r3 == IF rd.data_id >= 0 THEN Release(r2, "dataset") ELSE r2
           r4 == Free(r3, IF rd.dname = "NULL" THEN "NULL" ELSE "dname")
           r5 == IF rd.file_id >= 0 THEN Release(r4, "file") ELSE r4
       IN  res' = r5
    /\ pc' = "r_ret"
    /\ UNCHANGED <<fexists, entries, w, rd, a, exited, wlog, pre, lastW, valid, tvars>>

\* the caller hands the array arrayh5_read returned to arrayh5_destroy; freeing
\* a block twice is undefined: the process may go on or be ended
Destroy ==
    /\ pc = "r_ret"
    /\ res' = arrayh5_destroy(a, res)
    /\ IF \E r \in ArrayBlocks : res'[r] = "double"
       THEN \E crash \in BOOLEAN :
              /\ exited' = IF crash THEN "double free" ELSE ""
              /\ pc' = IF crash THEN "exit" ELSE "r_freed"
       ELSE exited' = "" /\ pc' = "r_freed"
    /\ UNCHANGED <<fexists, entries, w, rd, a, wlog, pre, lastW, valid, tvars>>

\* the caller is done with the array: the variable and the locals of the call
\* are gone
Leave ==
    /\ pc = "r_freed"
    /\ pc' = "idle"
    /\ rd' = RdIdle
    /\ a' = AUnset
    /\ res' = NoRes
    /\ UNCHANGED <<fexists, entries, w, exited, wlog, pre, lastW, valid, tvars>>

\* ------------------------------------------------------- specifications
\* the program before any call, on the container (fx, ents)
IOInit(fx, ents) ==
    /\ fexists = fx
    /\ entries = ents
    /\ pc = "idle"
    /\ w = WIdle
    /\ rd = RdIdle
    /\ a = AUnset
    /\ res = NoRes
    /\ exited = ""
    /\ wlog = <<>>
    /\ pre = NoPre
    /\ lastW = [n \in Names |-> NoArray]
    /\ valid = [n \in Names |-> FALSE]

NoCaller ==
    /\ arr = NoArray
    /\ orig = NoArray
    /\ op = "none"

\* --------------------------------------------------- transposing an array
InitT ==
    /\ arr \in {Labelled(d, 0) : d \in Shapes(MaxRank, MaxDimT)}
    /\ orig = arr
    /\ op = "create"
    /\ IOInit(FALSE, EmptyFile)

Create ==
    \E d \in Shapes(MaxRank, MaxDimT), b \in Bases :
        /\ arr' = Labelled(d, b)
        /\ orig' = arr'
        /\ op' = "create"
        /\ UNCHANGED iovars

Transpose ==
    /\ arr' = arrayh5_transpose(arr)
    /\ orig' = arr
    /\ op' = "transpose"
    /\ UNCHANGED iovars

NextT ==
    \/ Create
    \/ Transpose

SpecT == InitT /\ [][NextT]_vars

\* C1: after arrayh5_transpose the dims are the old dims reversed and the
\* element at the reversed multi-index is the old element at the multi-index;
\* shape (2,3) holding 1..6 becomes shape (3,2) holding 1,4,2,5,3,6
C1_Transpose ==
    op = "transpose" =>
        /\ arr.rank = orig.rank
        /\ arr.dims = Reverse(orig.dims)
        /\ \A idx \in MultiIdx(orig.dims) :
               ElemAt(arr, Reverse(idx)) = ElemAt(orig, idx)
        /\ (orig.dims = <<2, 3>> /\ orig.data = <<1, 2, 3, 4, 5, 6>>)
               => (arr.dims = <<3, 2>> /\ arr.data = <<1, 4, 2, 5, 3, 6>>)

C1_Witness ==
    /\ op = "transpose"
    /\ orig.dims = <<2, 3>>
    /\ orig.data = <<1, 2, 3, 4, 5, 6>>
    /\ arr.data = <<1, 4, 2, 5, 3, 6>>


\* -------------------------------------------------- reading a container
\* the containers arrayh5_read is run on: no file, an empty file, a group
\* only, one dataset of every shape (rank 0 included), a group before a dataset
ReadContainers ==
    {EmptyFile, [EmptyFile EXCEPT !["x"] = GroupEntry]}
    \cup {[EmptyFile EXCEPT ![n] = Dataset(d, Labelled(d, 0).data)] :
             n \in Names, d \in Shapes(MaxRank, MaxDim)}
    \cup {[x |-> GroupEntry, y |-> Dataset(d, Labelled(d, 0).data)] :
             d \in Shapes(1, MaxDim)}

Paths == Names \cup {""}

Faults == {"none", "getspace", "dread"}

InitRead ==
    /\ NoCaller
    /\ \E fx \in BOOLEAN, ents \in ReadContainers :
          /\ (~fx => ents = EmptyFile)
          /\ IOInit(fx, ents)

ReadSteps ==
    \/ RResolve
    \/ RDopen
    \/ RSpace
    \/ RAlloc
    \/ RFullCreate
    \/ RFullRead
    \/ RSliceSetup
    \/ RSliceRead
    \/ RInvalid
    \/ RDone
    \/ Destroy
    \/ Leave

NextRead ==
    \/ ROpen(Paths, -1..MaxRank, -1..MaxDim, Faults)
    \/ ReadSteps

SpecRead == InitRead /\ [][NextRead]_vars

\* ------------------------------------------ writing and reading back
\* the extents of the axes of the arrays handed to arrayh5_write
WriteExtents == {1, 2}

\* the arrays handed to arrayh5_write: one of every shape of rank 0..MaxRankW,
\* as created and as transposed by the caller
WriteArrays ==
    LET made == {Labelled(d, 0) :
                    d \in UNION {[1..r -> WriteExtents] : r \in 0..MaxRankW}}
    IN  made \cup {arrayh5_transpose(x) : x \in made}

InitRW ==
    /\ NoCaller
    /\ \E fx \in BOOLEAN : IOInit(fx, EmptyFile)

WriteSteps ==
    \/ WUnlink
    \/ WCheck
    \/ WSpace
    \/ WDcreate
    \/ WSclose
    \/ WDwrite
    \/ WDclose
    \/ WFclose

NextRW ==
    \/ WOpen(WriteArrays)
    \/ WriteSteps
    \/ ROpen(Paths, {-1, 0, MaxRankW}, {0, MaxDim}, {"none", "dread"})
    \/ ReadSteps

SpecRW == InitRW /\ [][NextRW]_vars

\* ------------------------------------------------------------- the claims
\* arrayh5_read has returned to its caller
Returned == pc = "r_ret"

\* arrayh5_read resolved a name that is a dataset of the container
Openable ==
    /\ rd.dname \in Names
    /\ RdDataset.kind = "dataset"

\* s without its i-th entry
RemoveAt(s, i) ==
    [j \in 1..(Len(s) - 1) |-> IF j < i THEN s[j] ELSE s[j + 1]]

\* the arguments select a slice of the stored dataset: 0 <= slicedim < rank,
\* 0 <= islice < dims[slicedim]
SliceArgs ==
    /\ rd.slicedim >= 0 /\ rd.slicedim < Len(RdDataset.dims)
    /\ rd.islice >= 0 /\ rd.islice < RdDataset.dims[rd.slicedim + 1]

\* C3: a slice read (slicedim = d in range, islice = k in range) of a stored
\* dataset returns Ok and an array whose dims are the stored dims without axis
\* d and whose elements are, in row-major order, exactly the stored elements
\* whose index on axis d is k (the container's transfers succeeding)
C3_SliceRead ==
    (Returned /\ Openable /\ rd.fault = "none" /\ SliceArgs) =>
        LET ds == RdDataset
            d == rd.slicedim + 1
            picked == {idx \in MultiIdx(ds.dims) : idx[d] = rd.islice}
        IN  /\ rd.err = 0
            /\ a.dims = RemoveAt(ds.dims, d)
            /\ Len(a.data) = Cardinality(picked)
            /\ \A idx \in picked :
                   a.data[RowMajor(RemoveAt(idx, d), a.dims) + 1]
                       = ds.data[RowMajor(idx, ds.dims) + 1]

C3_Witness ==
    /\ Returned /\ Openable /\ rd.fault = "none" /\ SliceArgs
    /\ RdDataset.dims = <<2, 2, 2>>
    /\ rd.slicedim = 1 /\ rd.islice = 1
    /\ a.data = <<3, 4, 7, 8>>

\* the opened dataset has rank >= 1 and its rank query succeeded
OpenedRankPos ==
    /\ Openable
    /\ Len(RdDataset.dims) >= 1
    /\ rd.fault # "getspace"

\* islice outside [0, dims[slicedim]), or slicedim outside [0, rank) with a
\* nonzero islice
BadSelection ==
    LET rank == Len(RdDataset.dims)
    IN  IF rd.slicedim >= 0 /\ rd.slicedim < rank
        THEN ~(rd.islice >= 0 /\ rd.islice < RdDataset.dims[rd.slicedim + 1])
        ELSE rd.islice # 0

NoArrayProduced ==
    a.dimsp = "NULL" /\ a.datap = "NULL"

\* C4 as claimed: every such selection, negative slicedim included, returns
\* status 5 and produces no array
C4_Claim ==
    (Returned /\ OpenedRankPos /\ BadSelection) =>
        (rd.err = 5 /\ NoArrayProduced)

\* C4 as amended: with slicedim >= 0, an islice outside [0, dims[slicedim]) or a
\* slicedim >= rank with a nonzero islice returns status 5 and produces no
\* array; a negative slicedim selects the full read whatever islice is
C4_InvalidSlice ==
    (Returned /\ OpenedRankPos) =>
        /\ (rd.slicedim >= 0 /\ BadSelection) => (rd.err = 5 /\ NoArrayProduced)
        /\ rd.slicedim < 0 => (rd.err \in {0, 3} /\ "read" \in rd.trace)

C4_Witness ==
    /\ Returned /\ OpenedRankPos /\ BadSelection
    /\ rd.slicedim >= Len(RdDataset.dims)
    /\ rd.islice # 0
    /\ rd.err = 5

C4_WitnessNegative ==
    /\ Returned /\ OpenedRankPos /\ BadSelection
    /\ rd.slicedim < 0
    /\ rd.err = 0

\* a slice read of a rank-1 dataset
SliceOfRank1 ==
    /\ Openable
    /\ Len(RdDataset.dims) = 1
    /\ SliceArgs

C6_Released ==
    /\ (pc \in {"r_resolve", "r_dopen", "r_space", "r_alloc", "r_select",
                "r_fullread", "r_sliceread", "r_done", "r_ret"}) =>
           \A r \in Resources : res[r] # "double"
    /\ Returned =>
           /\ rd.err \in 0..7
           /\ \A r \in Handles \cup TempBlocks : res[r] \in {"none", "released"}
           /\ rd.err # 0 => \A r \in ArrayBlocks : res[r] \in {"none", "released"}
           /\ rd.err = 0 => \A r \in ArrayBlocks : res[r] = "held"

C6_Witness ==
    /\ Returned
    /\ rd.err = 4
    /\ res["memspace"] = "released"
    /\ res["count2"] = "released"
    /\ res["a.data"] = "released"

\* C7: after arrayh5_read has returned, with whatever status, arrayh5_destroy
\* on the output array never frees a block that was freed already
C7_Claim ==
    \A r \in ArrayBlocks : res[r] # "double"

\* C8: when the rank query yields a value <= 0, arrayh5_read sets status 6,
\* produces no array and reaches neither the allocation of the dims buffers nor
\* a data read
C8_Claim ==
    ("rankquery" \in rd.trace /\ rd.ndims <= 0) =>
        /\ rd.err = 6
        /\ NoArrayProduced
        /\ "alloc" \notin rd.trace
        /\ "read" \notin rd.trace
        /\ exited = ""

\* the arguments of the read that returned select the full read of name d,
\* under which an array was written, and the container's transfers succeeded
FullReadOf(d) ==
    /\ Returned
    /\ rd.datapath = d
    /\ rd.fault = "none"
    /\ lastW[d] # NoArray
    /\ rd.slicedim < 0 \/ (rd.slicedim >= lastW[d].rank /\ rd.islice = 0)

\* the array read is the array most recently written under d
ReadBack(d) ==
    /\ rd.err = 0
    /\ arrayh5_conformant(a, lastW[d])
    /\ a.data = lastW[d].data

\* C2 as claimed: after any sequence of writes a full read of d returns Ok and
\* the array most recently written under d
C2_Claim ==
    \A d \in Names : FullReadOf(d) => ReadBack(d)

\* C2 as amended: a full read of d returns Ok and the array most recently
\* written under d provided no later write with append_data = 0 truncated the
\* container; after such a truncation d is gone and the read returns status 7
C2_RoundTrip ==
    \A d \in Names :
        FullReadOf(d) =>
            IF valid[d] THEN ReadBack(d) ELSE (rd.err = 7 /\ NoArrayProduced)

C2_Witness ==
    /\ FullReadOf("x") /\ valid["x"] /\ valid["y"]
    /\ lastW["y"].dims = <<1, 2>>
    /\ a.dims = <<2, 2>>
    /\ a.data = <<1, 3, 2, 4>>

\* the place of event e in the log of the write
Pos(e) ==
    CHOOSE i \in 1..Len(wlog) : wlog[i] = e

\* arrayh5_write has run to its end
WriteDone ==
    pc = "idle" /\ Len(wlog) > 0

\* C9 as claimed: declared, written, then dataset, dataspace and file handle
\* released in that order
C9_Claim ==
    WriteDone =>
        /\ Pos("H5Dcreate") < Pos("H5Dwrite")
        /\ Pos("H5Dwrite") < Pos("H5Dclose")
        /\ Pos("H5Dclose") < Pos("H5Sclose")
        /\ Pos("H5Sclose") < Pos("H5Fclose")

\* C9 as amended: the dataset is declared, the dataspace handle is released,
\* the buffer is written, and then the dataset handle and the file handle are
\* released, in that order
C9_WriteOrder ==
    /\ \E n \in 0..5 :
           wlog = SubSeq(<<"H5Dcreate", "H5Sclose", "H5Dwrite", "H5Dclose",
                           "H5Fclose">>, 1, n)
    /\ WriteDone => Len(wlog) = 5

C9_Witness ==
    /\ WriteDone
    /\ Len(wlog) = 5
    /\ res["file"] = "released"

\* C10: a write of a rank-0 array ends in the fatal rank check with the
\* container as it was before the call and no file handle left open
C10_Claim ==
    exited = "write: non-positive rank" =>
        /\ fexists = pre.fexists
        /\ entries = pre.entries
        /\ res["file"] # "held"
====
